---- MODULE Spec2Model ----
(***************************************************************************)
(* State-machine model of the OpenScans Python backend:                    *)
(*   - VertebraeDetector.run_inference (inference.py), the orchestrator,   *)
(*   - VertebraeDetector._parse_segmentation_results, the mask parser,     *)
(*   - VertebraeDetector._vertebra_sort_key, the anatomical ordering.      *)
(*   - ModelManager (model_manager.py) over the registry of config.py, and *)
(*     the download stream of main.py, the model cache manager.            *)
(*                                                                         *)
(* Conventions of the model                                                *)
(*   - A file name is a sequence of tokens; the tokens are the substrings  *)
(*     the code looks for ("vertebrae_", ".nii", ".gz") and single         *)
(*     characters.                                                         *)
(*   - A mask grid is stored in (z, y, x) order: a voxel index is a tuple  *)
(*     <<axis0, axis1, axis2>> = <<z, y, x>>.                              *)
(*   - spacing and origin are (x, y, z) tuples in hundredths of a          *)
(*     millimetre; center_physical is in hundredths of a millimetre (the   *)
(*     code rounds it to two decimals); confidence is in thousandths (the  *)
(*     code rounds it to three decimals).                                  *)
(***************************************************************************)
EXTENDS Integers, Sequences, FiniteSets, TLC

VARIABLES
    pc,         \* position of run_inference
    self,       \* the detector: [device, fast_mode] set by __init__
    image,      \* the loaded volume's metadata: [spacing, origin]
    fs,         \* the temporary directories that exist: directory -> (file name -> content)
    output_dir, \* the directory made by tempfile.TemporaryDirectory, "" before
    remaining,  \* the files output_dir.glob("*.nii.gz") has still to yield
    vertebrae,  \* the list _parse_segmentation_results is building
    exc,        \* the exception raised inside run_inference, [type |-> "none"] if none
    result,     \* what run_inference gave its caller, meaningful when pc = "done"
    cache,      \* the tree under ~/.totalsegmentator, the runtime's weights cache
    mutation,   \* what changed the cache last: a delete_model call or a write
    response,   \* the outcome of the last ModelManager call made through the service
    dl,         \* the download request in flight: position, task, what it read
    sink,       \* progress_queue: the events download_model gave progress_callback
    stream      \* the events progress_generator has yielded to the client

inferenceVars == <<pc, self, image, fs, output_dir, remaining, vertebrae, exc, result>>

cacheVars == <<cache, mutation, response, dl, sink, stream>>

vars == <<inferenceVars, cacheVars>>

----------------------------------------------------------------------------
(* Bounds of the model *)

\* most files the external model writes into the output directory
MaxFiles == 2
\* most files of a directory whose labels are all well formed (ordering runs)
MaxSortFiles == 3
\* largest voxel index on each axis of an enumerated sparse mask
GridMax == 1
\* most occupied voxels of an enumerated sparse mask
MaxVoxels == 3
\* largest elapsed time (ms) drawn for processing_time_ms
MaxElapsed == 1
\* most files below the weights directory
MaxCacheFiles == 2

\* inference.py:168, the voxel count at which confidence saturates
ConfidenceFullCount == 1000
\* inference.py:234, the rank of a section letter that is not C, T, L or S
UnknownSectionRank == 999

----------------------------------------------------------------------------
(* Arithmetic helpers *)

Abs(n) == IF n < 0 THEN -n ELSE n

Min2(a, b) == IF a <= b THEN a ELSE b

SetMin(S) == CHOOSE a \in S : \A b \in S : a <= b

SetMax(S) == CHOOSE a \in S : \A b \in S : a >= b

RECURSIVE SumOver(_, _)
\* sum of F[a] for a in S
SumOver(S, F) ==
    IF S = {} THEN 0
    ELSE LET a == CHOOSE b \in S : TRUE IN F[a] + SumOver(S \ {a}, F)

\* Python round(float) of the non-negative rational num/den: nearest integer,
\* a tie going to the even neighbour (k + 0.5 is exact in binary)
RoundHalfEven(num, den) ==
    LET q == num \div den
        r == num % den
    IN  IF 2 * r < den THEN q
        ELSE IF 2 * r > den THEN q + 1
        ELSE IF q % 2 = 0 THEN q ELSE q + 1

\* Python round(float, 2) of the rational num/den hundredths: the nearest
\* hundredth; on a decimal tie the binary value of the float lies on either
\* side, so both neighbours are possible results
RoundNearest(num, den) ==
    LET f == num \div den
    IN  {q \in {f, f + 1} : 2 * Abs(q * den - num) <= den}

----------------------------------------------------------------------------
(* File names and labels (inference.py:135-143) *)

Digits == {"0", "1", "2", "3", "4", "5", "6", "7", "8", "9"}

DigitValue ==
    [c \in Digits |->
        CASE c = "0" -> 0 [] c = "1" -> 1 [] c = "2" -> 2 [] c = "3" -> 3
          [] c = "4" -> 4 [] c = "5" -> 5 [] c = "6" -> 6 [] c = "7" -> 7
          [] c = "8" -> 8 [] c = "9" -> 9]

\* str.replace(tok, ""): every occurrence of tok is removed
Replace(s, tok) == SelectSeq(s, LAMBDA t : t # tok)

\* str.startswith(tok)
StartsWith(s, tok) == s # <<>> /\ s[1] = tok

\* Path.glob("*.nii.gz"): the name ends with ".nii.gz"
GlobMatches(name) ==
    /\ Len(name) >= 2
    /\ name[Len(name)] = ".gz"
    /\ name[Len(name) - 1] = ".nii"

\* Path.stem of a name the glob matched: the name without its last suffix
Stem(name) == SubSeq(name, 1, Len(name) - 1)

\* label_name = label_file.stem.replace(".nii", "")
LabelName(name) == Replace(Stem(name), ".nii")

\* vertebra_id = label_name.replace("vertebrae_", "")
VertebraId(label_name) == Replace(label_name, "vertebrae_")

----------------------------------------------------------------------------
(* Anatomical ordering (inference.py:213-234) *)

\* section_order = {"C": 0, "T": 1, "L": 2, "S": 3}
section_order == [s \in {"C", "T", "L", "S"} |->
                    CASE s = "C" -> 0 [] s = "T" -> 1 [] s = "L" -> 2 [] s = "S" -> 3]

\* int(s) succeeds on a non-empty string of decimal digits
IsInt(s) == s # <<>> /\ \A i \in 1..Len(s) : s[i] \in Digits

RECURSIVE PyInt(_)
PyInt(s) ==
    IF s = <<>> THEN 0
    ELSE 10 * PyInt(SubSeq(s, 1, Len(s) - 1)) + DigitValue[s[Len(s)]]

\* mutant of vertebra_sort_key: int(label[1]) in place of int(label[1:])
vertebra_sort_key_FirstDigit(label) ==
    IF label = <<>> THEN [raises |-> "IndexError", key |-> <<>>]
    ELSE IF ~IsInt(Tail(label)) THEN [raises |-> "ValueError", key |-> <<>>]
    ELSE [raises |-> "none",
          key |-> << IF label[1] \in DOMAIN section_order
                        THEN section_order[label[1]] ELSE UnknownSectionRank,
                     PyInt(<<label[2]>>) >>]

\* _vertebra_sort_key: the key (section_order.get(section, 999), int(label[1:])),
\* or the exception that label[0] (empty label) or int (no number) raises
vertebra_sort_key(label) ==
    IF label = <<>> THEN [raises |-> "IndexError", key |-> <<>>]
    ELSE IF ~IsInt(Tail(label)) THEN [raises |-> "ValueError", key |-> <<>>]
    ELSE [raises |-> "none",
          key |-> << IF label[1] \in DOMAIN section_order
                        THEN section_order[label[1]] ELSE UnknownSectionRank,
                     PyInt(Tail(label)) >>]

\* Python's ordering of the key tuples
KeyLE(k1, k2) == k1[1] < k2[1] \/ (k1[1] = k2[1] /\ k1[2] <= k2[2])

\* one step of a stable insertion: v goes after every element whose key is <= its key
InsertByKey(sorted, v) ==
    LET kv == vertebra_sort_key(v.label).key
        i  == Cardinality({j \in 1..Len(sorted) :
                              KeyLE(vertebra_sort_key(sorted[j].label).key, kv)})
    IN  SubSeq(sorted, 1, i) \o <<v>> \o SubSeq(sorted, i + 1, Len(sorted))

RECURSIVE StableSort(_)
StableSort(list) ==
    IF list = <<>> THEN <<>>
    ELSE InsertByKey(StableSort(SubSeq(list, 1, Len(list) - 1)), list[Len(list)])

\* vertebrae.sort(key=...): list.sort computes every key first, in list order;
\* the first key that raises ends the sort with the list unchanged
SortVertebrae(list) ==
    LET bad == {i \in 1..Len(list) : vertebra_sort_key(list[i].label).raises # "none"}
    IN  IF bad # {}
        THEN [raises |-> vertebra_sort_key(list[SetMin(bad)].label).raises, list |-> list]
        ELSE [raises |-> "none", list |-> StableSort(list)]

----------------------------------------------------------------------------
(* Mask grids and landmark records (inference.py:145-207) *)

\* A mask file's content: readable is FALSE when sitk.ReadImage raises; pos are
\* the voxels with a value > 0 given one by one, fill = <<nz, ny, nx>> adds the
\* solid block 0..nz-1 x 0..ny-1 x 0..nx-1 of voxels with a value > 0, and neg
\* are the voxels with a non-zero value that is not > 0
Block(fill) ==
    {<<z, y, x>> : z \in 0..(fill[1] - 1), y \in 0..(fill[2] - 1), x \in 0..(fill[3] - 1)}

\* mutant of Coords: np.argwhere(mask_array != 0)
Coords_NonZero(m) == m.pos \cup Block(m.fill) \cup m.neg

\* np.argwhere(mask_array > 0), as a set of <<z, y, x>> indices
Coords(m) == m.pos \cup Block(m.fill)

\* np.any(mask_array): some voxel has a non-zero value
NpAny(m) == m.pos # {} \/ Block(m.fill) # {} \/ m.neg # {}

\* the sum over the voxels of their index on one storage axis (1 = z, 2 = y, 3 = x)
AxisSum(coords, axis) ==
    LET values == {v[axis] : v \in coords}
    IN  SumOver(values, [a \in values |-> a * Cardinality({v \in coords : v[axis] = a})])

\* mutant of UnpackCentroid: x, y, z = centroid
UnpackCentroid_Swapped(coords) ==
    [x |-> AxisSum(coords, 1), y |-> AxisSum(coords, 2), z |-> AxisSum(coords, 3)]

\* z, y, x = centroid (inference.py:159, 172): each component the exact
\* rational sum / n, kept as the sum; n is Cardinality(coords)
UnpackCentroid(coords) ==
    [z |-> AxisSum(coords, 1), y |-> AxisSum(coords, 2), x |-> AxisSum(coords, 3)]

\* "center" (inference.py:183-187)
CenterVoxel(coords) ==
    LET c == UnpackCentroid(coords)
        n == Cardinality(coords)
    IN  [x |-> RoundHalfEven(c.x, n),
         y |-> RoundHalfEven(c.y, n),
         z |-> RoundHalfEven(c.z, n)]

\* mutant of CenterPhysical: spacing and origin indexed in storage order (z, y, x)
CenterPhysical_StorageOrder(coords, spacing, origin) ==
    LET c == UnpackCentroid(coords)
        n == Cardinality(coords)
    IN  {[x |-> px, y |-> py, z |-> pz] :
            px \in RoundNearest(c.x * spacing[3] + n * origin[3], n),
            py \in RoundNearest(c.y * spacing[2] + n * origin[2], n),
            pz \in RoundNearest(c.z * spacing[1] + n * origin[1], n)}

\* "center_physical" (inference.py:173-177, 188-192): the values
\* round(x * spacing[0] + origin[0], 2), ... can take, in hundredths of a mm
CenterPhysical(coords, spacing, origin) ==
    LET c == UnpackCentroid(coords)
        n == Cardinality(coords)
    IN  {[x |-> px, y |-> py, z |-> pz] :
            px \in RoundNearest(c.x * spacing[1] + n * origin[1], n),
            py \in RoundNearest(c.y * spacing[2] + n * origin[2], n),
            pz \in RoundNearest(c.z * spacing[3] + n * origin[3], n)}

\* "bounds" (inference.py:162-163, 193-204): min_coords[2] is x, [1] is y, [0] is z
Bounds(coords) ==
    [min |-> [x |-> SetMin({v[3] : v \in coords}),
              y |-> SetMin({v[2] : v \in coords}),
              z |-> SetMin({v[1] : v \in coords})],
     max |-> [x |-> SetMax({v[3] : v \in coords}),
              y |-> SetMax({v[2] : v \in coords}),
              z |-> SetMax({v[1] : v \in coords})]]

\* mutant of Confidence: the clamp left out
Confidence_Unclamped(labeled_voxels) == labeled_voxels

\* round(min(labeled_voxels / 1000, 1.0), 3), in thousandths: labeled_voxels is
\* an integer, so the quotient has three decimals and the rounding keeps it
Confidence(labeled_voxels) == Min2(labeled_voxels, ConfidenceFullCount)

\* What the loop body does with one file the glob yields (inference.py:136-157,
\* 209-211): "ignored" (not a vertebrae_ file), "failed" (the read raised and the
\* except clause printed a warning), "empty" (no voxel > 0) or "record"
FileOutcome(name, m) ==
    IF ~StartsWith(LabelName(name), "vertebrae_") THEN "ignored"
    ELSE IF ~m.readable THEN "failed"
    ELSE IF ~NpAny(m) THEN "empty"
    ELSE IF Coords(m) = {} THEN "empty"
    ELSE "record"

\* the dict appended to vertebrae (inference.py:181-207); file is not a key of
\* the code's dict: it records which file the record was made from
VertebraRecord(name, m, center_physical) ==
    LET coords == Coords(m)
    IN  [label           |-> VertebraId(LabelName(name)),
         center          |-> CenterVoxel(coords),
         center_physical |-> center_physical,
         bounds          |-> Bounds(coords),
         confidence      |-> Confidence(Cardinality(coords)),
         voxel_count     |-> Cardinality(coords),
         file            |-> name]

----------------------------------------------------------------------------
(* The orchestrator's collaborators and its exit paths (inference.py:61-115) *)

NoImage == [spacing |-> <<>>, origin |-> <<>>]

\* where names the call that raised (the innermost frame of the traceback)
NoException == [type |-> "none", message |-> "", where |-> ""]

NoResult == [pending |-> TRUE]

NoFiles == [d \in {} |-> <<>>]

\* the classes `except Exception` catches
ExceptionClasses == {"ValueError", "IndexError", "RuntimeError", "OSError"}

\* mutant of ExceptClause: except ValueError
ExceptClause_ValueErrorOnly(e, elapsed) ==
    IF e.type = "ValueError"
    THEN [success |-> FALSE, error |-> e.message, processing_time_ms |-> elapsed]
    ELSE [raised |-> e.type]

\* except Exception as e: return {"success": False, ...} (inference.py:109-115);
\* an exception the clause does not catch leaves run_inference
ExceptClause(e, elapsed) ==
    IF e.type \in ExceptionClasses
    THEN [success |-> FALSE, error |-> e.message, processing_time_ms |-> elapsed]
    ELSE [raised |-> e.type]

\* mutant of ExitTemporaryDirectory: mkdtemp, removed at the end of the block only
ExitTemporaryDirectory_LeakOnRaise(files, d, raising) ==
    IF raising THEN files ELSE [x \in DOMAIN files \ {d} |-> files[x]]

\* leaving `with tempfile.TemporaryDirectory() as output_dir` (inference.py:79):
\* the directory is removed, whether the block returns or raises
ExitTemporaryDirectory(files, d, raising) ==
    [x \in DOMAIN files \ {d} |-> files[x]]

----------------------------------------------------------------------------
(* The model cache manager (model_manager.py, config.py)                    *)
(*   - The cache is the tree under ~/.totalsegmentator: the weights         *)
(*     directory nnunet/results, the files below it counted by size, an     *)
(*     empty dataset directory in it, and config.json beside it.            *)
(*   - size_mb, freed_space_mb and total_size_mb are in hundredths of a     *)
(*     megabyte (the code rounds them to two decimals); progress is in      *)
(*     percent.                                                             *)

\* AVAILABLE_TASKS (config.py:18-39); approximate_size_mb in megabytes
AVAILABLE_TASKS ==
    [vertebrae  |-> [name |-> "Vertebrae Segmentation", approximate_size_mb |-> 2048],
     total_body |-> [name |-> "Total Body Segmentation", approximate_size_mb |-> 5120]]

\* 1024 * 1024 (model_manager.py:49, 140, 162)
BytesPerMB == 1024 * 1024

\* st_size of a weights file: an eighth of a megabyte (0.125 MB, a rounding
\* tie) and one megabyte
FileSizes == {131072, 1048576}

\* st_size of config.json, just over 0.005 MB
ConfigSize == 5243

NoWeights == [s \in FileSizes |-> 0]

\* ~/.totalsegmentator does not exist
AbsentCache ==
    [root |-> FALSE, results |-> FALSE, weights |-> NoWeights,
     emptydir |-> FALSE, config |-> FALSE, readable |-> TRUE]

\* the files f of ts_cache.rglob('*') with f.is_file(), ts_cache the weights
\* directory: their number and the sum of f.stat().st_size
WeightsCount(c) == SumOver(FileSizes, [s \in FileSizes |-> c.weights[s]])

WeightsBytes(c) == SumOver(FileSizes, [s \in FileSizes |-> s * c.weights[s]])

\* list(ts_cache.glob("*")): the dataset directories directly in the weights
\* directory, the one that holds the files and the empty one
GlobEntries(c) ==
    {e \in {"dataset", "empty"} :
        \/ e = "dataset" /\ WeightsCount(c) > 0
        \/ e = "empty" /\ c.emptydir}

\* stat() below ~/.totalsegmentator fails with EACCES, which Path.exists()
\* does not swallow
StatDenied(c) == c.root /\ ~c.readable

\* round(size_mb, 2) of bytes / (1024 * 1024), in hundredths of a megabyte;
\* the division by a power of two is exact, so a tie is a real tie
RoundMB(bytes) == RoundHalfEven(bytes * 100, BytesPerMB)

Returned(v) == [outcome |-> "returned", value |-> v]

Raised(type, message) == [outcome |-> "raised", type |-> type, message |-> message]

\* mutant of get_model_status: is_downloaded = ts_cache.exists()
get_model_status_ExistsOnly(c, task) ==
    IF task \notin DOMAIN AVAILABLE_TASKS
    THEN Returned([error |-> "Unknown task", task |-> task,
                   available_tasks |-> DOMAIN AVAILABLE_TASKS])
    ELSE IF StatDenied(c)
    THEN Raised("PermissionError", "Permission denied")
    ELSE LET is_downloaded == c.results
             size_mb == IF is_downloaded /\ c.results THEN WeightsBytes(c) ELSE 0
         IN  Returned([task |-> task,
                       name |-> AVAILABLE_TASKS[task].name,
                       downloaded |-> is_downloaded,
                       size_mb |-> IF is_downloaded THEN RoundMB(size_mb)
                                   ELSE AVAILABLE_TASKS[task].approximate_size_mb * 100,
                       cache_path |-> "~/.totalsegmentator/nnunet/results"])

\* ModelManager.get_model_status (model_manager.py:21-59)
get_model_status(c, task) ==
    IF task \notin DOMAIN AVAILABLE_TASKS
    THEN Returned([error |-> "Unknown task", task |-> task,
                   available_tasks |-> DOMAIN AVAILABLE_TASKS])
    ELSE IF StatDenied(c)
    THEN Raised("PermissionError", "Permission denied")
    ELSE LET is_downloaded == c.results /\ Cardinality(GlobEntries(c)) > 0
             size_mb == IF is_downloaded /\ c.results THEN WeightsBytes(c) ELSE 0
         IN  Returned([task |-> task,
                       name |-> AVAILABLE_TASKS[task].name,
                       downloaded |-> is_downloaded,
                       size_mb |-> IF is_downloaded THEN RoundMB(size_mb)
                                   ELSE AVAILABLE_TASKS[task].approximate_size_mb * 100,
                       cache_path |-> "~/.totalsegmentator/nnunet/results"])

\* ModelManager.get_all_models_status (model_manager.py:61-66): the dict
\* comprehension has no handler, so the first call that raises ends it
get_all_models_status(c) ==
    IF \E t \in DOMAIN AVAILABLE_TASKS : get_model_status(c, t).outcome = "raised"
    THEN LET t == CHOOSE t \in DOMAIN AVAILABLE_TASKS :
                      get_model_status(c, t).outcome = "raised"
         IN  get_model_status(c, t)
    ELSE Returned([t \in DOMAIN AVAILABLE_TASKS |-> get_model_status(c, t).value])

\* ModelManager.get_cache_stats (model_manager.py:155-173); rglob passes over a
\* directory it may not list, so only config.json is counted then
get_cache_stats(c) ==
    LET seen == [weights |-> IF c.readable THEN c.weights ELSE NoWeights]
        total_size == IF c.root
                      THEN WeightsBytes(seen) + (IF c.config THEN ConfigSize ELSE 0)
                      ELSE 0
        file_count == IF c.root
                      THEN WeightsCount(seen) + (IF c.config THEN 1 ELSE 0)
                      ELSE 0
        models == get_all_models_status(c)
    IN  IF models.outcome = "raised" THEN models
        ELSE Returned([cache_directory |-> "~/.totalsegmentator",
                       total_size_mb |-> RoundMB(total_size),
                       file_count |-> file_count,
                       models |-> models.value])

\* mutant of delete_model: shutil.rmtree of the weights directory only
delete_model_WeightsOnly(c, task) ==
    IF task \notin DOMAIN AVAILABLE_TASKS
    THEN [response |-> Raised("ValueError", "Unknown task"), after |-> {c}]
    ELSE IF c.root
    THEN LET seen == [weights |-> IF c.readable THEN c.weights ELSE NoWeights]
             size == WeightsBytes(seen) + (IF c.config THEN ConfigSize ELSE 0)
         IN  IF c.readable
             THEN [response |-> Returned([success |-> TRUE,
                                          message |-> "Deleted models",
                                          freed_space_mb |-> RoundMB(size)]),
                   after |-> {[c EXCEPT !.results = FALSE, !.weights = NoWeights,
                                        !.emptydir = FALSE]}]
             ELSE [response |-> Raised("PermissionError", "Permission denied"),
                   after |-> {c, [c EXCEPT !.config = FALSE]}]
    ELSE [response |-> Returned([success |-> FALSE,
                                 message |-> "No models found to delete"]),
          after |-> {c}]

\* ModelManager.delete_model (model_manager.py:125-153): the response and the
\* trees shutil.rmtree can leave; it raises at the directory it may not list,
\* having removed config.json or not
delete_model(c, task) ==
    IF task \notin DOMAIN AVAILABLE_TASKS
    THEN [response |-> Raised("ValueError", "Unknown task"), after |-> {c}]
    ELSE IF c.root
    THEN LET seen == [weights |-> IF c.readable THEN c.weights ELSE NoWeights]
             size == WeightsBytes(seen) + (IF c.config THEN ConfigSize ELSE 0)
         IN  IF c.readable
             THEN [response |-> Returned([success |-> TRUE,
                                          message |-> "Deleted models",
                                          freed_space_mb |-> RoundMB(size)]),
                   after |-> {AbsentCache}]
             ELSE [response |-> Raised("PermissionError", "Permission denied"),
                   after |-> {c, [c EXCEPT !.config = FALSE]}]
    ELSE [response |-> Returned([success |-> FALSE,
                                 message |-> "No models found to delete"]),
          after |-> {c}]

\* during and flushed are the position of the download request, and the number
\* of queued events it had yielded, when the cache was changed
NoMutation == [by |-> "none", during |-> "idle", flushed |-> 0, success |-> FALSE]

NoResponse == [op |-> "none"]

\* status is what download_model read, present whether the weights directory
\* had an entry at that read, failure the exception raised inside its try
\* block, exc the exception that left download_model, flushed the number of
\* queued events progress_generator has yielded
NoDownload ==
    [pc |-> "idle", task |-> "", status |-> NoResult, present |-> FALSE,
     failure |-> NoException, exc |-> NoException, flushed |-> 0]

\* no ModelManager call has been made and ~/.totalsegmentator does not exist
CacheIdle ==
    /\ cache = AbsentCache
    /\ mutation = NoMutation
    /\ response = NoResponse
    /\ dl = NoDownload
    /\ sink = <<>>
    /\ stream = <<>>

----------------------------------------------------------------------------
(* Inputs *)

RECURSIVE SubsetsUpTo(_, _)
\* the subsets of S with at most k elements
SubsetsUpTo(S, k) ==
    IF k = 0 THEN {{}}
    ELSE LET P == SubsetsUpTo(S, k - 1) IN P \cup {p \cup {e} : p \in P, e \in S}

\* the directories that hold at most k of the names, each with one of the contents
Directories(names, contents, k) ==
    UNION {[S -> contents] : S \in SubsetsUpTo(names, k)}

Detectors == [device : {"cpu", "cuda"}, fast_mode : BOOLEAN]

Images ==
    { [spacing |-> <<100, 100, 100>>, origin |-> <<0, 0, 0>>],
      [spacing |-> <<25, 70, 300>>,   origin |-> <<-1000, 0, 1234>>] }

Corrupt   == [readable |-> FALSE, pos |-> {}, neg |-> {}, fill |-> <<0, 0, 0>>]
EmptyMask == [readable |-> TRUE,  pos |-> {}, neg |-> {}, fill |-> <<0, 0, 0>>]
UnitMask  == [readable |-> TRUE,  pos |-> {<<0, 0, 0>>}, neg |-> {}, fill |-> <<0, 0, 0>>]
SkewMask  == [readable |-> TRUE,  pos |-> {<<0, 1, 2>>, <<0, 1, 3>>, <<1, 2, 5>>},
              neg |-> {}, fill |-> <<0, 0, 0>>]

FileContents == {Corrupt, EmptyMask, UnitMask, SkewMask}

FileL1 == <<"vertebrae_", "L", "1", ".nii", ".gz">>
FileL2 == <<"vertebrae_", "L", "2", ".nii", ".gz">>

\* names the external model can leave in the output directory
FileNames ==
    { FileL1,
      <<"vertebrae_", "T", "1", "2", ".nii", ".gz">>,
      <<"vertebrae_", "vertebrae_", "L", "1", ".nii", ".gz">>,
      <<"vertebrae_", "L", "1", ".nii", ".nii", ".gz">>,
      <<"vertebrae_", "b", "o", "d", "y", ".nii", ".gz">>,
      <<"vertebrae_", ".nii", ".gz">>,
      <<"r", "i", "b", ".nii", ".gz">>,
      <<"vertebrae_", "L", "1", ".nii">> }

OutputDirectories == Directories(FileNames, FileContents, MaxFiles)

----------------------------------------------------------------------------
(* run_inference, step by step *)

Init ==
    /\ pc = "start"
    /\ self \in Detectors
    /\ image = NoImage
    /\ fs = NoFiles
    /\ output_dir = ""
    /\ remaining = {}
    /\ vertebrae = <<>>
    /\ exc = NoException
    /\ result = NoResult
    /\ CacheIdle

\* image = self.load_dicom(input_path) returns (inference.py:76)
LoadDicom ==
    /\ pc = "start"
    /\ \E img \in Images : image' = img
    /\ pc' = "loaded"
    /\ UNCHANGED <<self, fs, output_dir, remaining, vertebrae, exc, result>>
    /\ UNCHANGED cacheVars

\* load_dicom raises ValueError (inference.py:58-59); no directory exists yet
LoadDicomFails ==
    /\ pc = "start"
    /\ exc' = [type |-> "ValueError", message |-> "Failed to load DICOM file",
               where |-> "load_dicom"]
    /\ pc' = "raising"
    /\ UNCHANGED <<self, image, fs, output_dir, remaining, vertebrae, result>>
    /\ UNCHANGED cacheVars

\* with tempfile.TemporaryDirectory() as output_dir (inference.py:79-80)
EnterTemporaryDirectory ==
    /\ pc = "loaded"
    /\ output_dir' = "tmp"
    /\ fs' = [d \in DOMAIN fs \cup {"tmp"} |-> IF d = "tmp" THEN NoFiles ELSE fs[d]]
    /\ pc' = "tempdir"
    /\ UNCHANGED <<self, image, remaining, vertebrae, exc, result>>
    /\ UNCHANGED cacheVars

\* totalsegmentator(...) returns having written its files (inference.py:84-94);
\* _parse_segmentation_results starts its glob (inference.py:97, 128-135)
RunTotalSegmentator ==
    /\ pc = "tempdir"
    /\ \E d \in OutputDirectories :
        /\ fs' = [fs EXCEPT ![output_dir] = d]
        /\ remaining' = {n \in DOMAIN d : GlobMatches(n)}
    /\ vertebrae' = <<>>
    /\ pc' = "parsing"
    /\ UNCHANGED <<self, image, output_dir, exc, result>>
    /\ UNCHANGED cacheVars

\* totalsegmentator(...) raises (inference.py:84)
RunTotalSegmentatorFails ==
    /\ pc = "tempdir"
    /\ exc' = [type |-> "RuntimeError", message |-> "inference failed",
               where |-> "totalsegmentator"]
    /\ pc' = "raising"
    /\ UNCHANGED <<self, image, fs, output_dir, remaining, vertebrae, result>>
    /\ UNCHANGED cacheVars

\* one iteration of `for label_file in output_dir.glob("*.nii.gz")`
\* (inference.py:135-211); the glob yields the files in any order
ParseLabelFile ==
    /\ pc = "parsing"
    /\ \E f \in remaining :
        LET m == fs[output_dir][f]
        IN  /\ remaining' = remaining \ {f}
            /\ IF FileOutcome(f, m) = "record"
               THEN \E cp \in CenterPhysical(Coords(m), image.spacing, image.origin) :
                        vertebrae' = Append(vertebrae, VertebraRecord(f, m, cp))
               ELSE vertebrae' = vertebrae
    /\ UNCHANGED <<pc, self, image, fs, output_dir, exc, result>>
    /\ UNCHANGED cacheVars

\* the loop is over and vertebrae.sort(...) raises out of
\* _parse_segmentation_results (inference.py:214)
SortFails ==
    /\ pc = "parsing"
    /\ remaining = {}
    /\ SortVertebrae(vertebrae).raises # "none"
    /\ exc' = [type |-> SortVertebrae(vertebrae).raises, message |-> "invalid label",
               where |-> "_parse_segmentation_results"]
    /\ pc' = "raising"
    /\ UNCHANGED <<self, image, fs, output_dir, remaining, vertebrae, result>>
    /\ UNCHANGED cacheVars

\* the loop is over, the sort succeeds and _parse_segmentation_results returns
\* the list (inference.py:214-216)
SortAndReturn ==
    /\ pc = "parsing"
    /\ remaining = {}
    /\ SortVertebrae(vertebrae).raises = "none"
    /\ vertebrae' = SortVertebrae(vertebrae).list
    /\ pc' = "parsed"
    /\ UNCHANGED <<self, image, fs, output_dir, remaining, exc, result>>
    /\ UNCHANGED cacheVars

\* run_inference returns the success result out of the with block
\* (inference.py:99-107)
ReturnResults ==
    /\ pc = "parsed"
    /\ \E elapsed \in 0..MaxElapsed :
        result' = [success            |-> TRUE,
                   vertebrae          |-> vertebrae,
                   processing_time_ms |-> elapsed,
                   device             |-> self.device,
                   fast_mode          |-> self.fast_mode]
    /\ fs' = ExitTemporaryDirectory(fs, output_dir, FALSE)
    /\ pc' = "done"
    /\ UNCHANGED <<self, image, output_dir, remaining, vertebrae, exc>>
    /\ UNCHANGED cacheVars

\* the exception leaves the with block, when one was entered, and reaches the
\* except clause (inference.py:79, 109-115)
HandleException ==
    /\ pc = "raising"
    /\ fs' = IF output_dir = "" THEN fs ELSE ExitTemporaryDirectory(fs, output_dir, TRUE)
    /\ \E elapsed \in 0..MaxElapsed : result' = ExceptClause(exc, elapsed)
    /\ pc' = "done"
    /\ UNCHANGED <<self, image, output_dir, remaining, vertebrae, exc>>
    /\ UNCHANGED cacheVars

Next ==
    \/ LoadDicom
    \/ LoadDicomFails
    \/ EnterTemporaryDirectory
    \/ RunTotalSegmentator
    \/ RunTotalSegmentatorFails
    \/ ParseLabelFile
    \/ SortFails
    \/ SortAndReturn
    \/ ReturnResults
    \/ HandleException

Spec == Init /\ [][Next]_vars

----------------------------------------------------------------------------
(* _parse_segmentation_results on enumerated mask grids *)

\* VertebraeDetector() with the defaults of __init__ (inference.py:28)
DefaultDetector == [device |-> "cpu", fast_mode |-> TRUE]

Grid == {<<z, y, x>> : z \in 0..GridMax, y \in 0..GridMax, x \in 0..GridMax}

\* readable masks with at most MaxVoxels voxels > 0 on the grid, with and
\* without a voxel that is non-zero and not > 0
SparseMasks ==
    { [readable |-> TRUE, pos |-> p, neg |-> n, fill |-> <<0, 0, 0>>] :
        p \in SubsetsUpTo(Grid, MaxVoxels), n \in {{}, {<<GridMax, 0, 0>>}} }

\* solid blocks of 999, 1000 and 1001 voxels, and one with a voxel outside it
BlockMasks ==
    { [readable |-> TRUE, pos |-> {}, neg |-> {}, fill |-> <<27, 37, 1>>],
      [readable |-> TRUE, pos |-> {}, neg |-> {}, fill |-> <<10, 10, 10>>],
      [readable |-> TRUE, pos |-> {}, neg |-> {}, fill |-> <<7, 11, 13>>],
      [readable |-> TRUE, pos |-> {<<20, 3, 40>>}, neg |-> {}, fill |-> <<2, 5, 3>>] }

MaskDirectories ==
    { [f \in {FileL1} |-> m] :
        m \in {mm \in SparseMasks : mm.pos \cap mm.neg = {}} \cup {SkewMask} \cup BlockMasks }
    \cup
    { [f \in {FileL1, FileL2} |-> IF f = FileL1 THEN a ELSE b] :
        a \in BlockMasks, b \in BlockMasks }

\* the state in which _parse_segmentation_results starts its loop
ParseInit(directories, images) ==
    /\ pc = "parsing"
    /\ self = DefaultDetector
    /\ image \in images
    /\ output_dir = "tmp"
    /\ \E d \in directories :
        /\ fs = [t \in {"tmp"} |-> d]
        /\ remaining = {n \in DOMAIN d : GlobMatches(n)}
    /\ vertebrae = <<>>
    /\ exc = NoException
    /\ result = NoResult
    /\ CacheIdle

ParseNext ==
    \/ ParseLabelFile
    \/ SortAndReturn
    \/ ReturnResults

InitMask == ParseInit(MaskDirectories, Images)

SpecMask == InitMask /\ [][ParseNext]_vars

----------------------------------------------------------------------------
(* _parse_segmentation_results on directories of well-formed labels *)

SortFileNames ==
    { <<"vertebrae_", s>> \o n \o <<".nii", ".gz">> :
        s \in {"C", "T", "L", "S", "X"},
        n \in {<<"1">>, <<"2">>, <<"7">>, <<"1", "2">>} }

SortDirectories == Directories(SortFileNames, {UnitMask}, MaxSortFiles)

InitSort == ParseInit(SortDirectories, {CHOOSE img \in Images : img.origin = <<0, 0, 0>>})

SpecSort == InitSort /\ [][ParseNext]_vars

----------------------------------------------------------------------------
(* The model cache manager behind the service (model_manager.py, main.py) *)

\* the task ids a request can carry: the registered ones and one that is not
TaskIds == DOMAIN AVAILABLE_TASKS \cup {"lung"}

\* the record kept of a ModelManager call: its result and the cache it met
Call(op, task, r, before) == [op |-> op, task |-> task, result |-> r, before |-> before]

\* every endpoint is a coroutine of one event loop (main.py:86, 104, 119, 134,
\* 181): no other call starts while download_model runs, only while
\* progress_generator is suspended at a yield or in asyncio.sleep
ServiceFree == dl.pc \notin {"preparing", "downloading", "read", "handling"}

\* the trees a write of the runtime can leave: one more weights file, an empty
\* dataset directory, the weights directory alone, config.json
Writes(c) ==
    ( { [c EXCEPT !.root = TRUE, !.results = TRUE, !.weights[s] = @ + 1] :
          s \in {x \in FileSizes : WeightsCount(c) < MaxCacheFiles} }
      \cup { [c EXCEPT !.root = TRUE, !.results = TRUE, !.emptydir = TRUE],
             [c EXCEPT !.root = TRUE, !.results = TRUE],
             [c EXCEPT !.root = TRUE, !.config = TRUE] } ) \ {c}

\* GET /api/models/status (main.py:85-100)
GetModelStatus ==
    /\ ServiceFree
    /\ \E task \in TaskIds :
        response' = Call("status", task, get_model_status(cache, task), cache)
    /\ UNCHANGED <<cache, mutation, dl, sink, stream>>
    /\ UNCHANGED inferenceVars

\* GET /api/models/all (main.py:103-115)
GetAllModelsStatus ==
    /\ ServiceFree
    /\ response' = Call("status_all", "", get_all_models_status(cache), cache)
    /\ UNCHANGED <<cache, mutation, dl, sink, stream>>
    /\ UNCHANGED inferenceVars

\* GET /api/models/cache-stats (main.py:118-130)
GetCacheStats ==
    /\ ServiceFree
    /\ response' = Call("cache_stats", "", get_cache_stats(cache), cache)
    /\ UNCHANGED <<cache, mutation, dl, sink, stream>>
    /\ UNCHANGED inferenceVars

\* DELETE /api/models/{task} (main.py:180-195)
DeleteModel ==
    /\ ServiceFree
    /\ \E task \in TaskIds :
        LET d == delete_model(cache, task)
            success == d.response.outcome = "returned" /\ d.response.value.success
        IN  /\ cache' \in d.after
            /\ response' = Call("delete", task, d.response, cache)
            /\ mutation' = IF success \/ cache' # cache
                           THEN [by |-> "delete", during |-> dl.pc, flushed |-> dl.flushed,
                                 success |-> success]
                           ELSE mutation
    /\ UNCHANGED <<dl, sink, stream>>
    /\ UNCHANGED inferenceVars

\* the runtime, in a model run or from another process, writes below
\* ~/.totalsegmentator
RuntimeWrites ==
    /\ ~StatDenied(cache)
    /\ cache' \in Writes(cache)
    /\ mutation' = [by |-> "write", during |-> dl.pc, flushed |-> dl.flushed,
                    success |-> TRUE]
    /\ UNCHANGED <<response, dl, sink, stream>>
    /\ UNCHANGED inferenceVars

\* the runtime fetches a weights file of one megabyte on first use
RuntimeDownloads ==
    /\ ~StatDenied(cache)
    /\ WeightsCount(cache) < MaxCacheFiles
    /\ cache' = [cache EXCEPT !.root = TRUE, !.results = TRUE, !.weights[BytesPerMB] = @ + 1]
    /\ mutation' = [by |-> "write", during |-> dl.pc, flushed |-> dl.flushed,
                    success |-> TRUE]
    /\ UNCHANGED <<response, dl, sink, stream>>
    /\ UNCHANGED inferenceVars

\* the permissions of ~/.totalsegmentator/nnunet are taken away or given back
PermissionsChange ==
    /\ cache.root
    /\ cache' = [cache EXCEPT !.readable = ~@]
    /\ UNCHANGED <<mutation, response, dl, sink, stream>>
    /\ UNCHANGED inferenceVars

\* the events download_model gives progress_callback (model_manager.py:84-89,
\* 97-102, 117-122)
PreparingEvent(task) ==
    [status |-> "preparing", message |-> "Preparing to download", progress |-> 0]

DownloadingEvent ==
    [status |-> "downloading", message |-> "TotalSegmentator is downloading models...",
     progress |-> 50]

ErrorEvent(e) ==
    [status |-> "error", message |-> "Failed to prepare models", progress |-> 0]

\* mutant of TerminalEvent: "status": "complete"
TerminalEvent_AlwaysComplete(status) ==
    [status |-> "complete", message |-> "Models ready", progress |-> 100]

\* model_manager.py:107-112
TerminalEvent(status) ==
    [status |-> IF status.downloaded THEN "complete" ELSE "ready",
     message |-> IF status.downloaded THEN "Models ready" ELSE "Ready for first use",
     progress |-> 100]

\* POST /api/models/download/{task}: progress_generator starts with an empty
\* progress_queue and yields the starting event (main.py:147-157)
DownloadRequest ==
    /\ dl.pc \in {"idle", "done"}
    /\ \E task \in TaskIds :
        dl' = [NoDownload EXCEPT !.pc = "started", !.task = task]
    /\ sink' = <<>>
    /\ stream' = <<[status |-> "starting", progress |-> 0]>>
    /\ UNCHANGED <<cache, mutation, response>>
    /\ UNCHANGED inferenceVars

\* download_model raises ValueError before any event (model_manager.py:79-80)
DownloadUnknownTask ==
    /\ dl.pc = "started"
    /\ dl.task \notin DOMAIN AVAILABLE_TASKS
    /\ dl' = [dl EXCEPT !.pc = "caught",
                        !.exc = [type |-> "ValueError", message |-> "Unknown task",
                                 where |-> "download_model"]]
    /\ UNCHANGED <<cache, mutation, response, sink, stream>>
    /\ UNCHANGED inferenceVars

\* model_manager.py:84-89
DownloadPreparing ==
    /\ dl.pc = "started"
    /\ dl.task \in DOMAIN AVAILABLE_TASKS
    /\ sink' = Append(sink, PreparingEvent(dl.task))
    /\ dl' = [dl EXCEPT !.pc = "preparing"]
    /\ UNCHANGED <<cache, mutation, response, stream>>
    /\ UNCHANGED inferenceVars

\* the import of the runtime raises inside the try block (model_manager.py:94-95)
ImportFails ==
    /\ dl.pc = "preparing"
    /\ dl' = [dl EXCEPT !.pc = "handling",
                        !.failure = [type |-> "ImportError",
                                     message |-> "No module named 'totalsegmentator'",
                                     where |-> "import"]]
    /\ UNCHANGED <<cache, mutation, response, sink, stream>>
    /\ UNCHANGED inferenceVars

\* except Exception as e: the sink gets an error event, then `raise` sends e
\* on to the caller of download_model (model_manager.py:116-123)
HandleFailure ==
    /\ dl.pc = "handling"
    /\ sink' = Append(sink, ErrorEvent(dl.failure))
    /\ dl' = [dl EXCEPT !.pc = "caught", !.exc = dl.failure]
    /\ UNCHANGED <<cache, mutation, response, stream>>
    /\ UNCHANGED inferenceVars

\* the import returns (model_manager.py:95-102)
DownloadDownloading ==
    /\ dl.pc = "preparing"
    /\ sink' = Append(sink, DownloadingEvent)
    /\ dl' = [dl EXCEPT !.pc = "downloading"]
    /\ UNCHANGED <<cache, mutation, response, stream>>
    /\ UNCHANGED inferenceVars

\* status = self.get_model_status(task) (model_manager.py:105), which returns
\* or raises inside the try block
DownloadReadStatus ==
    /\ dl.pc = "downloading"
    /\ LET r == get_model_status(cache, dl.task)
           e == [type |-> r.type, message |-> r.message, where |-> "get_model_status"]
       IN  IF r.outcome = "returned"
           THEN dl' = [dl EXCEPT !.pc = "read", !.status = r.value,
                               !.present = cache.results /\ GlobEntries(cache) # {}]
           ELSE dl' = [dl EXCEPT !.pc = "handling", !.failure = e]
    /\ UNCHANGED <<cache, mutation, response, sink, stream>>
    /\ UNCHANGED inferenceVars

\* model_manager.py:107-114
DownloadTerminal ==
    /\ dl.pc = "read"
    /\ sink' = Append(sink, TerminalEvent(dl.status))
    /\ dl' = [dl EXCEPT !.pc = "returned"]
    /\ UNCHANGED <<cache, mutation, response, stream>>
    /\ UNCHANGED inferenceVars

\* for progress in progress_queue: yield it, then asyncio.sleep(0.1)
\* (main.py:162-164)
FlushEvent ==
    /\ dl.pc = "returned"
    /\ dl.flushed < Len(sink)
    /\ stream' = Append(stream, sink[dl.flushed + 1])
    /\ dl' = [dl EXCEPT !.flushed = @ + 1]
    /\ UNCHANGED <<cache, mutation, response, sink>>
    /\ UNCHANGED inferenceVars

\* main.py:167
YieldComplete ==
    /\ dl.pc = "returned"
    /\ dl.flushed = Len(sink)
    /\ stream' = Append(stream, [status |-> "complete", progress |-> 100,
                                 result |-> dl.status])
    /\ dl' = [dl EXCEPT !.pc = "done"]
    /\ UNCHANGED <<cache, mutation, response, sink>>
    /\ UNCHANGED inferenceVars

\* except Exception as e: the queued events are dropped (main.py:169-171)
YieldError ==
    /\ dl.pc = "caught"
    /\ stream' = Append(stream, [status |-> "error", message |-> dl.exc.message,
                                 progress |-> 0])
    /\ dl' = [dl EXCEPT !.pc = "done"]
    /\ UNCHANGED <<cache, mutation, response, sink>>
    /\ UNCHANGED inferenceVars

CacheInit ==
    /\ pc = "done"
    /\ self = DefaultDetector
    /\ image = NoImage
    /\ fs = NoFiles
    /\ output_dir = ""
    /\ remaining = {}
    /\ vertebrae = <<>>
    /\ exc = NoException
    /\ result = NoResult
    /\ CacheIdle

CacheNext ==
    \/ GetModelStatus
    \/ GetAllModelsStatus
    \/ GetCacheStats
    \/ DeleteModel
    \/ RuntimeWrites
    \/ PermissionsChange

SpecCache == CacheInit /\ [][CacheNext]_vars

DownloadNext ==
    \/ DownloadRequest
    \/ DownloadUnknownTask
    \/ DownloadPreparing
    \/ ImportFails
    \/ HandleFailure
    \/ DownloadDownloading
    \/ DownloadReadStatus
    \/ DownloadTerminal
    \/ FlushEvent
    \/ YieldComplete
    \/ YieldError
    \/ DeleteModel
    \/ RuntimeDownloads
    \/ PermissionsChange

SpecDownload == CacheInit /\ [][DownloadNext]_vars

----------------------------------------------------------------------------
(* Vocabulary of the properties *)

\* the directory _parse_segmentation_results reads, while it exists
MaskDirectory == fs[output_dir]

\* a file the parser takes for a structure of interest: the glob yields it and
\* its name starts with the structure prefix
Qualifying(name) == GlobMatches(name) /\ name[1] = "vertebrae_"

\* the voxels of a mask that are occupied (value > 0)
Occupied(m) == m.pos \cup Block(m.fill)

\* the parser has gone through the whole directory and has returned or raised
ParserEnded ==
    \/ pc = "parsed"
    \/ pc = "raising" /\ exc.where = "_parse_segmentation_results"

RecordsOf(list) == {list[i] : i \in 1..Len(list)}

Components == {"x", "y", "z"}

\* the storage axis of a physical component: x is axis 2, y axis 1, z axis 0,
\* numbered from 1 in a voxel tuple
StorageAxis(c) == CASE c = "x" -> 3 [] c = "y" -> 2 [] c = "z" -> 1

\* the index of a physical component in spacing and origin
PhysicalAxis(c) == CASE c = "x" -> 1 [] c = "y" -> 2 [] c = "z" -> 3

\* the section rank of the ordering policy, C < T < L < S, 0 for any other letter
PolicyRank(section) ==
    CASE section = "C" -> 1 [] section = "T" -> 2 [] section = "L" -> 3
      [] section = "S" -> 4 [] OTHER -> 0

RECURSIVE DecimalValue(_, _)
\* the integer a digit string denotes, read from the left
DecimalValue(digits, acc) ==
    IF digits = <<>> THEN acc
    ELSE DecimalValue(Tail(digits), 10 * acc + DigitValue[Head(digits)])

\* label a may stand before label b under the ordering policy
PolicyOrdered(a, b) ==
    LET ra == PolicyRank(a[1])
        rb == PolicyRank(b[1])
    IN  IF ra = 0 THEN rb = 0
        ELSE IF rb = 0 THEN TRUE
        ELSE \/ ra < rb
             \/ ra = rb /\ DecimalValue(Tail(a), 0) <= DecimalValue(Tail(b), 0)

----------------------------------------------------------------------------
(* C1: run_inference always returns a result record; when the volume load,  *)
(* the external model or the parser raised, the record has success = FALSE, *)
(* the error message and the elapsed time, and no exception leaves run.     *)
C1_RunReturnsResult ==
    pc = "done" =>
        /\ "success" \in DOMAIN result
        /\ exc.type # "none" =>
            /\ result.success = FALSE
            /\ DOMAIN result = {"success", "error", "processing_time_ms"}
            /\ result.error = exc.message
            /\ result.processing_time_ms \in 0..MaxElapsed
        /\ exc.type = "none" => result.success = TRUE

\* the parser raised IndexError and run returned the failure record
C1_Witness ==
    /\ pc = "done"
    /\ exc.where = "_parse_segmentation_results"
    /\ exc.type = "IndexError"
    /\ "success" \in DOMAIN result
    /\ result.success = FALSE

(* C2: the temporary output directory run created no longer exists when run *)
(* has returned, whichever way it returned.                                 *)
C2_TempDirRemoved ==
    pc = "done" /\ output_dir # "" => output_dir \notin DOMAIN fs

\* run returned after the parser raised with the directory in place
C2_Witness ==
    /\ pc = "done"
    /\ output_dir # ""
    /\ exc.where = "_parse_segmentation_results"

(* C3: over a directory in which some qualifying files fail to load, the    *)
(* parser does not fail and returns exactly one record for each qualifying  *)
(* mask that loads and is not empty, none for a file that fails.            *)
C3_SkipsFailingFiles ==
    (/\ ParserEnded
     /\ \E f \in DOMAIN MaskDirectory : Qualifying(f) /\ ~MaskDirectory[f].readable)
    => /\ pc = "parsed"
       /\ Len(vertebrae) =
            Cardinality({f \in DOMAIN MaskDirectory :
                            /\ Qualifying(f)
                            /\ MaskDirectory[f].readable
                            /\ Occupied(MaskDirectory[f]) # {}})
       /\ \A r \in RecordsOf(vertebrae) :
            /\ Qualifying(r.file)
            /\ MaskDirectory[r.file].readable
            /\ Occupied(MaskDirectory[r.file]) # {}
       /\ \A i, j \in 1..Len(vertebrae) : vertebrae[i].file = vertebrae[j].file => i = j

(* C4: on an existing directory and well-formed metadata the parser returns *)
(* a list, whatever the directory holds: it never raises.                   *)
C4_ParserNeverRaises ==
    ~(pc = "raising" /\ exc.where = "_parse_segmentation_results")

(* C5: the returned list is sorted ascending by (section rank C < T < L < S, *)
(* Number as an integer), and a label with another section letter stands    *)
(* after every label with a known section.                                  *)
C5_SortedAnatomically ==
    /\ pc = "parsed" =>
        \A i, j \in 1..Len(vertebrae) :
            i < j => PolicyOrdered(vertebrae[i].label, vertebrae[j].label)
    /\ pc = "done" =>
        /\ result.success
        /\ \A i, j \in 1..Len(result.vertebrae) :
            i < j => PolicyOrdered(result.vertebrae[i].label, result.vertebrae[j].label)

\* the result T2, T12, X1: numeric order inside a section, the unknown letter last
C5_Witness ==
    /\ pc = "done"
    /\ Len(result.vertebrae) = 3
    /\ result.vertebrae[1].label = <<"T", "2">>
    /\ result.vertebrae[2].label = <<"T", "1", "2">>
    /\ result.vertebrae[3].label = <<"X", "1">>

(* C6: no record is emitted for a mask with zero occupied voxels: every     *)
(* record comes from a mask with an occupied voxel, has voxel_count >= 1    *)
(* and a confidence greater than 0.                                         *)
C6_NoRecordForEmptyMask ==
    pc \in {"parsing", "parsed"} =>
        \A r \in RecordsOf(vertebrae) :
            /\ Occupied(MaskDirectory[r.file]) # {}
            /\ r.voxel_count >= 1
            /\ r.confidence > 0

\* a mask whose only non-zero voxel is not > 0 went through the loop and left no record
C6_Witness ==
    /\ pc = "parsed"
    /\ vertebrae = <<>>
    /\ \E f \in DOMAIN MaskDirectory :
        /\ Qualifying(f)
        /\ MaskDirectory[f].readable
        /\ MaskDirectory[f].neg # {}
        /\ Occupied(MaskDirectory[f]) = {}

(* C7: every record has bounds.min <= center <= bounds.max on x, y and z.   *)
C7_CenterWithinBounds ==
    \A r \in RecordsOf(vertebrae) :
        \A c \in Components :
            /\ r.bounds.min[c] <= r.center[c]
            /\ r.center[c] <= r.bounds.max[c]

\* a record whose center lies strictly inside its bounds on x
C7_Witness ==
    \E r \in RecordsOf(vertebrae) :
        /\ r.bounds.min.x < r.center.x
        /\ r.center.x < r.bounds.max.x

(* C8 as amended: in every record the x, y and z components of center,      *)
(* center_physical, bounds.min and bounds.max come from storage axes 2, 1   *)
(* and 0 of the mask grid; center is the centroid rounded to the nearest    *)
(* integer, bounds are the least and greatest index, and center_physical on *)
(* physical axis i is centroid * spacing[i] + origin[i] rounded to two      *)
(* decimals (the nearest hundredth of a millimetre); the mask {(0,0,0)}     *)
(* with spacing (1,1,1) and origin (0,0,0) gives zeros everywhere.          *)
C8_AxesAndPhysicalRounded ==
    pc \in {"parsing", "parsed"} =>
        \A r \in RecordsOf(vertebrae) :
            LET S == Occupied(MaskDirectory[r.file])
                n == Cardinality(S)
            IN  /\ \A c \in Components :
                    LET a   == StorageAxis(c)
                        i   == PhysicalAxis(c)
                        sum == AxisSum(S, a)
                    IN  /\ 2 * Abs(n * r.center[c] - sum) <= n
                        /\ \E v \in S : v[a] = r.bounds.min[c]
                        /\ \E v \in S : v[a] = r.bounds.max[c]
                        /\ \A v \in S : r.bounds.min[c] <= v[a] /\ v[a] <= r.bounds.max[c]
                        /\ 2 * Abs(n * r.center_physical[c]
                                     - (sum * image.spacing[i] + n * image.origin[i])) <= n
                /\ (/\ S = {<<0, 0, 0>>}
                    /\ image.spacing = <<100, 100, 100>>
                    /\ image.origin = <<0, 0, 0>>)
                   => /\ r.center = [x |-> 0, y |-> 0, z |-> 0]
                      /\ r.center_physical = [x |-> 0, y |-> 0, z |-> 0]
                      /\ r.bounds.min = [x |-> 0, y |-> 0, z |-> 0]
                      /\ r.bounds.max = [x |-> 0, y |-> 0, z |-> 0]

\* a record of a mask whose x, y and z extents differ, on a volume whose
\* spacing differs on the three axes
C8_Witness ==
    /\ pc = "parsed"
    /\ image.spacing = <<25, 70, 300>>
    /\ \E r \in RecordsOf(vertebrae) :
        /\ r.bounds.max.x > r.bounds.max.y
        /\ r.bounds.max.y > r.bounds.max.z
        /\ r.center.x > r.center.y

(* C8 as stated: center_physical on each physical axis equals the centroid  *)
(* on that axis times spacing[i] plus origin[i], exactly.                   *)
C8_PhysicalExact ==
    pc \in {"parsing", "parsed"} =>
        \A r \in RecordsOf(vertebrae) :
            LET S == Occupied(MaskDirectory[r.file])
                n == Cardinality(S)
            IN  \A c \in Components :
                    n * r.center_physical[c] =
                        AxisSum(S, StorageAxis(c)) * image.spacing[PhysicalAxis(c)]
                            + n * image.origin[PhysicalAxis(c)]

C10_LabelsUnique ==
    pc = "parsed" =>
        \A i, j \in 1..Len(vertebrae) :
            vertebrae[i].label = vertebrae[j].label => i = j

----------------------------------------------------------------------------
(* Vocabulary of the cache properties *)

\* the expected weights directory exists and has at least one entry
WeightsDirectoryNonEmpty(c) ==
    c.root /\ c.results /\ (c.emptydir \/ \E s \in FileSizes : c.weights[s] > 0)

\* the cache root holds no file at all
HoldsNoFiles(c) ==
    ~c.config /\ \A s \in FileSizes : c.weights[s] = 0

\* the registry's estimate for a task, in hundredths of a megabyte
RegistryEstimate(task) == AVAILABLE_TASKS[task].approximate_size_mb * 100

\* hundredths is a nearest hundredth of a megabyte to the byte count
MeasuresBytes(hundredths, bytes) ==
    2 * Abs(hundredths * BytesPerMB - bytes * 100) <= BytesPerMB

\* the sizes of the files below the weights directory, summed
BytesBelowWeightsDirectory(c) ==
    SumOver(FileSizes, [s \in FileSizes |-> s * c.weights[s]])

\* a read of the weights directory fails
ReadFails(c) == c.root /\ ~c.readable

\* a terminal event of download_model: an event with a message at progress 1.0
IsTerminal(ev) == "message" \in DOMAIN ev /\ ev.progress = 100

\* the last call was op and it returned
ReturnedFrom(op) == response.op = op /\ response.result.outcome = "returned"

----------------------------------------------------------------------------
(* C11: for a registered task, a status that get_model_status returns has   *)
(* downloaded = TRUE exactly when the weights directory exists and is not    *)
(* empty; with downloaded = FALSE its size is the registry's approximate     *)
(* size, with downloaded = TRUE it is the sum of the sizes of the files      *)
(* below the weights directory (in megabytes, to two decimals); for a task   *)
(* outside the registry the answer is an error naming the unknown task and   *)
(* carries no status.                                                        *)
C11_StatusReflectsCache ==
    ReturnedFrom("status") =>
        LET v == response.result.value
            c == response.before
        IN  IF response.task \in DOMAIN AVAILABLE_TASKS
            THEN /\ "error" \notin DOMAIN v
                 /\ v.task = response.task
                 /\ v.downloaded <=> WeightsDirectoryNonEmpty(c)
                 /\ ~v.downloaded => v.size_mb = RegistryEstimate(response.task)
                 /\ v.downloaded => MeasuresBytes(v.size_mb, BytesBelowWeightsDirectory(c))
            ELSE /\ "error" \in DOMAIN v
                 /\ "downloaded" \notin DOMAIN v

\* a status with downloaded = TRUE measured over two files of 1 MB and 0.125 MB,
\* with config.json beside the weights directory left out of the sum
C11_Witness ==
    /\ ReturnedFrom("status")
    /\ response.task = "total_body"
    /\ response.before.config
    /\ response.before.weights = [s \in FileSizes |-> 1]
    /\ response.result.value.downloaded
    /\ response.result.value.size_mb = 112

----------------------------------------------------------------------------
(* C12: after a delete_model call for any one registered task has returned  *)
(* success = TRUE, and until something writes below the cache root again,    *)
(* get_model_status reports downloaded = FALSE for every registered task     *)
(* and get_cache_stats reports zero bytes and zero files.                    *)
C12_DeleteRemovesSharedCache ==
    (mutation.by = "delete" /\ mutation.success) =>
        /\ ~cache.root
        /\ \A t \in DOMAIN AVAILABLE_TASKS :
            LET s == get_model_status(cache, t)
            IN  s.outcome = "returned" /\ ~s.value.downloaded
        /\ LET stats == get_cache_stats(cache)
           IN  /\ stats.outcome = "returned"
               /\ stats.value.total_size_mb = 0
               /\ stats.value.file_count = 0

\* delete_model("vertebrae") has just freed two weights files and config.json,
\* and the status of total_body is downloaded = FALSE
C12_Witness ==
    /\ ReturnedFrom("delete")
    /\ response.task = "vertebrae"
    /\ response.result.value.success
    /\ WeightsCount(response.before) = 2
    /\ response.before.config
    /\ response.result.value.freed_space_mb > 0
    /\ mutation.by = "delete"
    /\ ~get_model_status(cache, "total_body").value.downloaded

----------------------------------------------------------------------------
(* C13: for a registered task, delete_model on a cache root that is absent   *)
(* or holds no files returns success = FALSE, frees zero bytes and does not  *)
(* raise.                                                                    *)
C13_DeleteOnEmptyCache ==
    ( /\ response.op = "delete"
      /\ response.task \in DOMAIN AVAILABLE_TASKS
      /\ response.before.readable
      /\ ~response.before.root \/ HoldsNoFiles(response.before) ) =>
        /\ response.result.outcome = "returned"
        /\ ~response.result.value.success
        /\ "freed_space_mb" \in DOMAIN response.result.value =>
               response.result.value.freed_space_mb = 0

----------------------------------------------------------------------------
(* C14: in a download_model call on a registered task, the progress of the   *)
(* events given to the sink never decreases from one event to the next, and  *)
(* a call that returns has given exactly preparing (0.0), downloading (0.5)  *)
(* and one terminal event at 1.0: complete when the weights were present at  *)
(* its read, ready when they were not.                                       *)
C14_ProgressNeverDecreases ==
    dl.task \in DOMAIN AVAILABLE_TASKS =>
        /\ \A i \in 1..(Len(sink) - 1) : sink[i].progress <= sink[i + 1].progress
        /\ dl.pc \in {"returned", "done"} /\ dl.exc.type = "none" =>
              /\ Len(sink) = 3
              /\ sink[1].status = "preparing" /\ sink[1].progress = 0
              /\ sink[2].status = "downloading" /\ sink[2].progress = 50
              /\ sink[3].status = (IF dl.present THEN "complete" ELSE "ready")
              /\ sink[3].progress = 100

----------------------------------------------------------------------------
(* C15: when the import of the runtime fails in a download_model call on a   *)
(* registered task, the sink gets one error event with progress 0.0 and a    *)
(* message, and no exception leaves download_model.                          *)
C15_FailureStaysInSink ==
    ( /\ dl.task \in DOMAIN AVAILABLE_TASKS
      /\ dl.failure.where = "import"
      /\ dl.pc \in {"caught", "done"} ) =>
        /\ Cardinality({i \in DOMAIN sink : sink[i].status = "error"}) = 1
        /\ \A i \in DOMAIN sink :
              sink[i].status = "error" => sink[i].progress = 0 /\ sink[i].message # ""
        /\ dl.exc.type = "none"

----------------------------------------------------------------------------
(* C16: get_all_models_status returns an entry for every registered task in  *)
(* every state of the cache; when reading the weights directory fails, the   *)
(* entry of the task reports an error state, and the call does not raise.    *)
C16_StatusAllNeverFails ==
    response.op = "status_all" =>
        /\ response.result.outcome = "returned"
        /\ \A t \in DOMAIN AVAILABLE_TASKS :
              /\ t \in DOMAIN response.result.value
              /\ ReadFails(response.before) => "error" \in DOMAIN response.result.value[t]

----------------------------------------------------------------------------
(* C17: a terminal event on the stream says complete exactly when the read   *)
(* of download_model found the weights present, whatever the cache holds     *)
(* when the event is delivered; when it is delivered as complete while the   *)
(* cache root is absent, a delete_model call that returned success removed   *)
(* the root after that read, while the request was still in flight or done.  *)
C17_CompleteReportsTheRead ==
    /\ \A i \in DOMAIN stream :
          IsTerminal(stream[i]) => (stream[i].status = "complete" <=> dl.present)
    /\ ( /\ \E i \in DOMAIN stream :
               IsTerminal(stream[i]) /\ stream[i].status = "complete"
         /\ ~cache.root ) =>
            /\ mutation.by = "delete"
            /\ mutation.success
            /\ mutation.during \in {"returned", "done"}

\* download_model read the weights as present, delete_model then removed the
\* cache root before the terminal event was yielded, and the terminal event
\* complete is on the stream while the root is absent
C17_Witness ==
    /\ dl.task \in DOMAIN AVAILABLE_TASKS
    /\ dl.present /\ dl.status.downloaded
    /\ mutation.by = "delete" /\ mutation.success
    /\ mutation.during = "returned" /\ mutation.flushed < 3
    /\ ~cache.root
    /\ Len(stream) = 4
    /\ IsTerminal(stream[4]) /\ stream[4].status = "complete"
    /\ response.op = "delete" /\ WeightsDirectoryNonEmpty(response.before)

====
